---- MODULE Spec2Model ----
(***************************************************************************)
(* Model of apps/log-receiver/xdp_filter.c: the XDP packet admission       *)
(* filter of the killkrill log receiver.                                   *)
(*                                                                         *)
(* State: the two rule maps (allowed_ports, cidr_rules), the per-CPU      *)
(* statistics map (xdp_statistics) and the record of the last invocation  *)
(* of xdp_filter_func.                                                    *)
(*                                                                         *)
(* Representation.  A __u32 address is the tuple of its four octets in    *)
(* wire order; the bitwise AND of two addresses is the octet-wise AND.    *)
(* A 16-bit header field is the pair of its wire bytes; Load16 is the     *)
(* load of the field by a little-endian CPU (the bpfel target) and        *)
(* bpf_ntohs/bpf_htons swap the two bytes.  The __u64 counters are        *)
(* naturals: the packet budget keeps them far below 2^64.                 *)
(***************************************************************************)
EXTENDS Integers, Sequences, FiniteSets, TLC

(***************************************************************************)
(* Bounds of the model.  The maps of the source hold 1024 and 64 slots;   *)
(* the model scans maps of MAX_CIDR_RULES and MAX_PORT_RULES slots.       *)
(***************************************************************************)
MAX_CIDR_RULES == 2
MAX_PORT_RULES == 3
NumCpus == 2
MaxPackets == 2
MaxWrites == 2

(***************************************************************************)
(* Program constants.                                                      *)
(***************************************************************************)
ETH_HLEN == 14
IPHDR_LEN == 20
TCPHDR_LEN == 20
UDPHDR_LEN == 8
ETH_P_IP == 2048
IPPROTO_TCP == 6
IPPROTO_UDP == 17
MIN_IHL == 5
SYSLOG_PORT_MIN == 10000
SYSLOG_PORT_MAX == 11000
API_PORTS == {80, 443, 8081, 8082}

XDP_DROP == "XDP_DROP"
XDP_PASS == "XDP_PASS"
\* a pointer is NULL or the one-element tuple of the slot it points to
NULL == <<>>

Cpus == 0 .. (NumCpus - 1)
PortSlots == 0 .. (MAX_PORT_RULES - 1)
CidrSlots == 0 .. (MAX_CIDR_RULES - 1)

(***************************************************************************)
(* Bit and byte operations.                                                *)
(***************************************************************************)
RECURSIVE And8(_, _)
And8(a, b) ==
    IF a = 0 \/ b = 0 THEN 0
    ELSE ((a % 2) * (b % 2)) + 2 * And8(a \div 2, b \div 2)

And32(a, b) == [k \in 1..4 |-> And8(a[k], b[k])]

\* the two wire bytes of a 16-bit value, most significant first
Wire16(v) == <<v \div 256, v % 256>>
\* the value the wire bytes encode (network order)
WireValue(w) == w[1] * 256 + w[2]
\* the __u16 a little-endian CPU loads from the two bytes
Load16(w) == w[1] + 256 * w[2]
Swap16(x) == (x % 256) * 256 + (x \div 256)
bpf_ntohs(x) == Swap16(x)
bpf_htons(x) == Swap16(x)

(***************************************************************************)
(* Value domains of the model.                                             *)
(***************************************************************************)
IP_CLIENT == <<10, 0, 0, 5>>
IP_OTHER == <<192, 168, 1, 1>>
NET_LAN == <<10, 0, 0, 7>>
MASK_24 == <<255, 255, 255, 0>>
ZERO32 == <<0, 0, 0, 0>>

SrcIps == {IP_CLIENT, IP_OTHER}
DestPorts == {0, 443, 10500}
\* values the control plane stores in an allow-list slot
PortValues == {0, 443, 10500}
\* values the control plane stores in a CIDR slot
CidrRule(n, m, p, e) == [network |-> n, mask |-> m, port |-> p, enabled |-> e]
ZeroRule == CidrRule(ZERO32, ZERO32, 0, 0)
NetMasks == {<<NET_LAN, MASK_24>>, <<ZERO32, ZERO32>>}
RulePorts == {0, 443}
RuleValues == {CidrRule(nm[1], nm[2], p, e) : nm \in NetMasks, p \in RulePorts, e \in {0, 1}}

(***************************************************************************)
(* Frames: the bytes between ctx->data and ctx->data_end, as the fields   *)
(* the filter reads.  len is data_end - data; dest is the destination     *)
(* port field of the transport header at offset ETH_HLEN + ihl * 4.       *)
(***************************************************************************)
Frame(l, ety, hl, pr, sa, dp) ==
    [len |-> l, h_proto |-> Wire16(ety), ihl |-> hl, protocol |-> pr,
     saddr |-> sa, dest |-> Wire16(dp)]

FilteredFrames ==
    {Frame(60, ETH_P_IP, MIN_IHL, pr, sa, dp) :
        pr \in {IPPROTO_TCP, IPPROTO_UDP}, sa \in SrcIps, dp \in DestPorts}
    \cup {Frame(50, ETH_P_IP, MIN_IHL, IPPROTO_UDP, IP_CLIENT, dp) : dp \in {443, 10500}}
    \cup {Frame(60, ETH_P_IP, 6, IPPROTO_TCP, IP_CLIENT, 443)}
    \cup {Frame(60, ETH_P_IP, MIN_IHL, IPPROTO_TCP, IP_OTHER, dp) : dp \in {80, 8080, 8081, 8082}}
    \cup {Frame(60, ETH_P_IP, MIN_IHL, IPPROTO_UDP, IP_OTHER, dp) : dp \in {9999, 10000, 11000, 11001}}

OtherFrames ==
    { Frame(10, ETH_P_IP, MIN_IHL, IPPROTO_TCP, IP_CLIENT, 443),        \* shorter than ethhdr
      Frame(60, 2054, MIN_IHL, IPPROTO_TCP, IP_CLIENT, 443), \* not IPv4
      Frame(60, 34525, 6, IPPROTO_UDP, IP_CLIENT, 10500),    \* not IPv4
      Frame(20, ETH_P_IP, MIN_IHL, IPPROTO_TCP, IP_CLIENT, 443),        \* shorter than eth + iphdr
      Frame(60, ETH_P_IP, 4, IPPROTO_TCP, IP_CLIENT, 443),        \* ihl < 5
      Frame(60, ETH_P_IP, 0, 1, IP_CLIENT, 443),       \* ihl < 5, not TCP/UDP
      Frame(50, ETH_P_IP, MIN_IHL, IPPROTO_TCP, IP_CLIENT, 443), \* tcphdr cut
      Frame(40, ETH_P_IP, MIN_IHL, IPPROTO_UDP, IP_CLIENT, 10500),      \* udphdr cut
      Frame(60, ETH_P_IP, 15, IPPROTO_UDP, IP_CLIENT, 10500),     \* options push udphdr out
      Frame(60, ETH_P_IP, MIN_IHL, 1, IP_CLIENT, 443), \* neither TCP nor UDP
      Frame(34, ETH_P_IP, MIN_IHL, 1, IP_OTHER, 0),          \* ICMP, no room for L4
      Frame(10, 2054, 4, IPPROTO_TCP, IP_CLIENT, 443),       \* shorter than ethhdr, not IPv4
      Frame(60, 2054, 4, IPPROTO_TCP, IP_CLIENT, 443),       \* not IPv4, ihl < 5
      Frame(20, ETH_P_IP, 4, IPPROTO_TCP, IP_CLIENT, 443) }  \* shorter than eth + iphdr, ihl < 5

Frames == FilteredFrames \cup OtherFrames

\* the frames that arrive while the control plane updates a slot
ScanFrames ==
    { Frame(60, ETH_P_IP, MIN_IHL, IPPROTO_TCP, IP_CLIENT, 443),
      Frame(60, ETH_P_IP, MIN_IHL, IPPROTO_TCP, IP_OTHER, 443),
      Frame(60, ETH_P_IP, MIN_IHL, IPPROTO_UDP, IP_OTHER, 10500),
      Frame(60, ETH_P_IP, MIN_IHL, 1, IP_CLIENT, 443) }

\* the frames of the traffic that Spec repeats between control-plane writes
TrafficFrames ==
    { Frame(60, ETH_P_IP, MIN_IHL, IPPROTO_TCP, IP_CLIENT, 443),
      Frame(60, ETH_P_IP, MIN_IHL, IPPROTO_TCP, IP_OTHER, 443),
      Frame(60, ETH_P_IP, MIN_IHL, IPPROTO_TCP, IP_CLIENT, 10500),
      Frame(50, ETH_P_IP, MIN_IHL, IPPROTO_UDP, IP_CLIENT, 10500),
      Frame(60, ETH_P_IP, MIN_IHL, IPPROTO_UDP, IP_OTHER, 443),
      Frame(10, ETH_P_IP, MIN_IHL, IPPROTO_TCP, IP_CLIENT, 443),
      Frame(60, 2054, MIN_IHL, IPPROTO_TCP, IP_CLIENT, 443),
      Frame(60, ETH_P_IP, 4, IPPROTO_TCP, IP_CLIENT, 443),
      Frame(60, ETH_P_IP, 0, 1, IP_CLIENT, 443),
      Frame(50, ETH_P_IP, MIN_IHL, IPPROTO_TCP, IP_CLIENT, 443),
      Frame(40, ETH_P_IP, MIN_IHL, IPPROTO_UDP, IP_CLIENT, 10500),
      Frame(60, ETH_P_IP, MIN_IHL, 1, IP_CLIENT, 443) }

(***************************************************************************)
(* struct xdp_stats                                                        *)
(***************************************************************************)
Counters ==
    {"packets_total", "packets_allowed", "packets_blocked",
     "bytes_total", "bytes_allowed", "bytes_blocked",
     "tcp_packets", "udp_packets", "syslog_packets", "api_packets"}

ZeroStats == [c \in Counters |-> 0]

NoRun == [kind |-> "none"]
IdleInv == [pc |-> "idle"]
IdleCp == [stage |-> "idle", n |-> 0]

VARIABLES
    cidr_rules,      \* BPF_MAP_TYPE_ARRAY: slot -> struct cidr_rule
    allowed_ports,   \* BPF_MAP_TYPE_ARRAY: slot -> __u16
    xdp_statistics,  \* BPF_MAP_TYPE_PERCPU_ARRAY, key 0: cpu -> struct xdp_stats
    last,            \* the last completed invocation of xdp_filter_func
    writes,          \* number of control-plane writes so far
    delivered,       \* per CPU: the IPv4 TCP/UDP frames the driver handed to the hook
    inv,             \* per CPU: the invocation in progress, statement by statement
    cp,              \* the control plane's slot update in progress
    versions         \* per CIDR slot: the rules the control plane has written or begun to write in it

vars == <<cidr_rules, allowed_ports, xdp_statistics, last, writes, delivered,
          inv, cp, versions>>

\* bpf_map_lookup_elem on an array map: a pointer to the slot, NULL past the end
bpf_map_lookup_elem(map, key) == IF key \in DOMAIN map THEN <<map[key]>> ELSE NULL

(***************************************************************************)
(* check_cidr_match: 1 iff the rule is enabled and the masked addresses   *)
(* agree.                                                                  *)
(***************************************************************************)
\* mutant: the network is compared unmasked
check_cidr_match_unmasked(ip, rule) ==
    IF rule.enabled = 0 THEN 0
    ELSE IF And32(ip, rule.mask) = rule.network THEN 1 ELSE 0

check_cidr_match(ip, rule) ==
    IF rule.enabled = 0 THEN 0
    ELSE LET masked_ip == And32(ip, rule.mask)
             masked_network == And32(rule.network, rule.mask)
         IN  IF masked_ip = masked_network THEN 1 ELSE 0

(***************************************************************************)
(* check_port_allowed: the loop over the allow-list from slot i on.       *)
(* ret is the value returned, lookups the number of slots looked up.      *)
(***************************************************************************)
\* mutant: a 0 entry is skipped instead of ending the scan
RECURSIVE PortLoop_skip_zero(_, _)
PortLoop_skip_zero(i, port) ==
    IF ~(i < MAX_PORT_RULES) THEN [ret |-> 0, lookups |-> i]
    ELSE LET allowed_port == bpf_map_lookup_elem(allowed_ports, i)
         IN  IF allowed_port = NULL THEN [ret |-> 0, lookups |-> i + 1]
             ELSE IF allowed_port[1] # 0 /\ allowed_port[1] = port
                 THEN [ret |-> 1, lookups |-> i + 1]
             ELSE PortLoop_skip_zero(i + 1, port)

\* the comparison with the port is made before the test for the sentinel
RECURSIVE PortLoop_compare_first(_, _)
PortLoop_compare_first(i, port) ==
    IF ~(i < MAX_PORT_RULES) THEN [ret |-> 0, lookups |-> i]
    ELSE LET allowed_port == bpf_map_lookup_elem(allowed_ports, i)
         IN  IF allowed_port = NULL THEN [ret |-> 0, lookups |-> i + 1]
             ELSE IF allowed_port[1] = port THEN [ret |-> 1, lookups |-> i + 1]
             ELSE IF allowed_port[1] = 0 THEN [ret |-> 0, lookups |-> i + 1]
             ELSE PortLoop_compare_first(i + 1, port)

RECURSIVE PortLoop(_, _)
PortLoop(i, port) ==
    IF ~(i < MAX_PORT_RULES) THEN [ret |-> 0, lookups |-> i]
    ELSE LET allowed_port == bpf_map_lookup_elem(allowed_ports, i)
         IN  IF allowed_port = NULL \/ allowed_port[1] = 0
                 THEN [ret |-> 0, lookups |-> i + 1]
             ELSE IF allowed_port[1] = port
                 THEN [ret |-> 1, lookups |-> i + 1]
             ELSE PortLoop(i + 1, port)

check_port_allowed(port) == PortLoop(0, port).ret

(***************************************************************************)
(* The CIDR loop of xdp_filter_func from slot i on: ip_allowed, and the   *)
(* number of slots looked up when the loop ends.                           *)
(***************************************************************************)
\* mutant: the first slot that agrees on port, network and mask ends the scan,
\* enabled or not
RECURSIVE CidrLoop_first_field_match(_, _, _)
CidrLoop_first_field_match(i, src_ip, dest_port) ==
    IF ~(i < MAX_CIDR_RULES) THEN [ip_allowed |-> 0, lookups |-> i]
    ELSE LET rule == bpf_map_lookup_elem(cidr_rules, i)
         IN  IF rule = NULL
                 THEN CidrLoop_first_field_match(i + 1, src_ip, dest_port)
             ELSE IF rule[1].port # 0 /\ rule[1].port # dest_port
                 THEN CidrLoop_first_field_match(i + 1, src_ip, dest_port)
             ELSE IF And32(src_ip, rule[1].mask) = And32(rule[1].network, rule[1].mask)
                 THEN [ip_allowed |-> check_cidr_match(src_ip, rule[1]), lookups |-> i + 1]
             ELSE CidrLoop_first_field_match(i + 1, src_ip, dest_port)

\* a loop that matches on network, mask and port and never reads enabled
RECURSIVE CidrLoop_ignore_enabled(_, _, _)
CidrLoop_ignore_enabled(i, src_ip, dest_port) ==
    IF ~(i < MAX_CIDR_RULES) THEN [ip_allowed |-> 0, lookups |-> i]
    ELSE LET rule == bpf_map_lookup_elem(cidr_rules, i)
         IN  IF rule = NULL
                 THEN CidrLoop_ignore_enabled(i + 1, src_ip, dest_port)
             ELSE IF rule[1].port # 0 /\ rule[1].port # dest_port
                 THEN CidrLoop_ignore_enabled(i + 1, src_ip, dest_port)
             ELSE IF And32(src_ip, rule[1].mask) = And32(rule[1].network, rule[1].mask)
                 THEN [ip_allowed |-> 1, lookups |-> i + 1]
             ELSE CidrLoop_ignore_enabled(i + 1, src_ip, dest_port)

RECURSIVE CidrLoop(_, _, _)
CidrLoop(i, src_ip, dest_port) ==
    IF ~(i < MAX_CIDR_RULES) THEN [ip_allowed |-> 0, lookups |-> i]
    ELSE LET rule == bpf_map_lookup_elem(cidr_rules, i)
         IN  IF rule = NULL \/ rule[1].enabled = 0
                 THEN CidrLoop(i + 1, src_ip, dest_port)
             ELSE IF rule[1].port # 0 /\ rule[1].port # dest_port
                 THEN CidrLoop(i + 1, src_ip, dest_port)
             ELSE IF check_cidr_match(src_ip, rule[1]) # 0
                 THEN [ip_allowed |-> 1, lookups |-> i + 1]
             ELSE CidrLoop(i + 1, src_ip, dest_port)

\* a store of the increment in place of the sum
Add_store(st, c, n) == [st EXCEPT ![c] = n]

(***************************************************************************)
(* update_stats: the new counter block of the executing CPU.              *)
(***************************************************************************)
Add(st, c, n) == [st EXCEPT ![c] = @ + n]

\* mutant: the bytes of a blocked packet are not charged to bytes_blocked
update_stats_no_bytes_blocked(st, packet_size, allowed, is_tcp, is_udp, is_syslog, is_api) ==
    LET s1 == Add(Add(st, "packets_total", 1), "bytes_total", packet_size)
        s2 == IF allowed # 0
              THEN Add(Add(s1, "packets_allowed", 1), "bytes_allowed", packet_size)
              ELSE Add(s1, "packets_blocked", 1)
    IN  IF is_tcp # 0
        THEN LET s3 == Add(s2, "tcp_packets", 1)
             IN  IF is_api # 0 THEN Add(s3, "api_packets", 1) ELSE s3
        ELSE IF is_udp # 0
        THEN LET s3 == Add(s2, "udp_packets", 1)
             IN  IF is_syslog # 0 THEN Add(s3, "syslog_packets", 1) ELSE s3
        ELSE s2

update_stats(st, packet_size, allowed, is_tcp, is_udp, is_syslog, is_api) ==
    LET s1 == Add(Add(st, "packets_total", 1), "bytes_total", packet_size)
        s2 == IF allowed # 0
              THEN Add(Add(s1, "packets_allowed", 1), "bytes_allowed", packet_size)
              ELSE Add(Add(s1, "packets_blocked", 1), "bytes_blocked", packet_size)
    IN  IF is_tcp # 0
        THEN LET s3 == Add(s2, "tcp_packets", 1)
             IN  IF is_api # 0 THEN Add(s3, "api_packets", 1) ELSE s3
        ELSE IF is_udp # 0
        THEN LET s3 == Add(s2, "udp_packets", 1)
             IN  IF is_syslog # 0 THEN Add(s3, "syslog_packets", 1) ELSE s3
        ELSE s2

(***************************************************************************)
(* The parsing part of xdp_filter_func (lines 119-177): either an early   *)
(* return, or the values handed to the port and CIDR checks.              *)
(***************************************************************************)
Early(v) == [kind |-> "return", verdict |-> v]

\* mutant: the syslog range excludes its two end ports
ParseTransport_open_range(f, hdr_len, tcp) ==
    IF ETH_HLEN + f.ihl * 4 + hdr_len > f.len THEN Early(XDP_DROP)
    ELSE LET dest_port == bpf_ntohs(Load16(f.dest))
         IN  [kind |-> "filter",
              src_ip |-> f.saddr,
              dest_port |-> dest_port,
              packet_size |-> f.len,
              is_tcp |-> IF tcp THEN 1 ELSE 0,
              is_udp |-> IF tcp THEN 0 ELSE 1,
              is_api |-> IF tcp /\ (dest_port = 80 \/ dest_port = 443
                                    \/ dest_port = 8081 \/ dest_port = 8082)
                         THEN 1 ELSE 0,
              is_syslog |-> IF ~tcp /\ dest_port > 10000 /\ dest_port < 11000
                            THEN 1 ELSE 0]

ParseTransport(f, hdr_len, tcp) ==
    IF ETH_HLEN + f.ihl * 4 + hdr_len > f.len THEN Early(XDP_DROP)
    ELSE LET dest_port == bpf_ntohs(Load16(f.dest))
         IN  [kind |-> "filter",
              src_ip |-> f.saddr,
              dest_port |-> dest_port,
              packet_size |-> f.len,
              is_tcp |-> IF tcp THEN 1 ELSE 0,
              is_udp |-> IF tcp THEN 0 ELSE 1,
              is_api |-> IF tcp /\ (dest_port = 80 \/ dest_port = 443
                                    \/ dest_port = 8081 \/ dest_port = 8082)
                         THEN 1 ELSE 0,
              is_syslog |-> IF ~tcp /\ dest_port >= 10000 /\ dest_port <= 11000
                            THEN 1 ELSE 0]

\* mutant: a protocol other than TCP and UDP is dropped
Parse_drop_other_proto(f) ==
    IF ETH_HLEN > f.len THEN Early(XDP_PASS)
    ELSE IF Load16(f.h_proto) # bpf_htons(ETH_P_IP) THEN Early(XDP_PASS)
    ELSE IF ETH_HLEN + IPHDR_LEN > f.len THEN Early(XDP_PASS)
    ELSE IF f.ihl < MIN_IHL THEN Early(XDP_DROP)
    ELSE IF f.protocol = IPPROTO_TCP THEN ParseTransport(f, TCPHDR_LEN, TRUE)
    ELSE IF f.protocol = IPPROTO_UDP THEN ParseTransport(f, UDPHDR_LEN, FALSE)
    ELSE Early(XDP_DROP)

\* the protocol is looked at before the header length
Parse_proto_before_ihl(f) ==
    IF ETH_HLEN > f.len THEN Early(XDP_PASS)
    ELSE IF Load16(f.h_proto) # bpf_htons(ETH_P_IP) THEN Early(XDP_PASS)
    ELSE IF ETH_HLEN + IPHDR_LEN > f.len THEN Early(XDP_PASS)
    ELSE IF f.protocol # IPPROTO_TCP /\ f.protocol # IPPROTO_UDP THEN Early(XDP_PASS)
    ELSE IF f.ihl < MIN_IHL THEN Early(XDP_DROP)
    ELSE IF f.protocol = IPPROTO_TCP THEN ParseTransport(f, TCPHDR_LEN, TRUE)
    ELSE ParseTransport(f, UDPHDR_LEN, FALSE)

\* mutant: the header length is not verified
Parse_no_ihl_check(f) ==
    IF ETH_HLEN > f.len THEN Early(XDP_PASS)
    ELSE IF Load16(f.h_proto) # bpf_htons(ETH_P_IP) THEN Early(XDP_PASS)
    ELSE IF ETH_HLEN + IPHDR_LEN > f.len THEN Early(XDP_PASS)
    ELSE IF f.protocol = IPPROTO_TCP THEN ParseTransport(f, TCPHDR_LEN, TRUE)
    ELSE IF f.protocol = IPPROTO_UDP THEN ParseTransport(f, UDPHDR_LEN, FALSE)
    ELSE Early(XDP_PASS)

Parse(f) ==
    IF ETH_HLEN > f.len THEN Early(XDP_PASS)
    ELSE IF Load16(f.h_proto) # bpf_htons(ETH_P_IP) THEN Early(XDP_PASS)
    ELSE IF ETH_HLEN + IPHDR_LEN > f.len THEN Early(XDP_PASS)
    ELSE IF f.ihl < MIN_IHL THEN Early(XDP_DROP)
    ELSE IF f.protocol = IPPROTO_TCP THEN ParseTransport(f, TCPHDR_LEN, TRUE)
    ELSE IF f.protocol = IPPROTO_UDP THEN ParseTransport(f, UDPHDR_LEN, FALSE)
    ELSE Early(XDP_PASS)

(***************************************************************************)
(* xdp_filter_func on frame f, as one run against the current maps: the   *)
(* verdict, whether update_stats is called and with which 'allowed'.      *)
(***************************************************************************)
\* mutant: the port gate returns without calling update_stats
Run_no_stats_on_port_drop(f) ==
    LET p == Parse(f)
    IN  IF p.kind = "return"
            THEN [verdict |-> p.verdict, counted |-> FALSE, allowed |-> 0,
                  port_lookups |-> 0, cidr_lookups |-> 0, parse |-> p]
        ELSE LET pl == PortLoop(0, p.dest_port)
             IN  IF check_port_allowed(p.dest_port) = 0
                     THEN [verdict |-> XDP_DROP, counted |-> FALSE, allowed |-> 0,
                           port_lookups |-> pl.lookups, cidr_lookups |-> 0, parse |-> p]
                 ELSE LET cl == CidrLoop(0, p.src_ip, p.dest_port)
                      IN  [verdict |-> IF cl.ip_allowed # 0 THEN XDP_PASS ELSE XDP_DROP,
                           counted |-> TRUE, allowed |-> cl.ip_allowed,
                           port_lookups |-> pl.lookups, cidr_lookups |-> cl.lookups,
                           parse |-> p]

\* mutant: syslog-tagged packets skip the CIDR check
\* a filter with memory: once a packet has been counted, every filtered packet is dropped
Run_after_first_drop(f) ==
    LET p == Parse(f)
    IN  IF p.kind = "return"
            THEN [verdict |-> p.verdict, counted |-> FALSE, allowed |-> 0,
                  port_lookups |-> 0, cidr_lookups |-> 0, parse |-> p]
        ELSE LET pl == PortLoop(0, p.dest_port)
                 cl == CidrLoop(0, p.src_ip, p.dest_port)
             IN  IF \/ check_port_allowed(p.dest_port) = 0
                    \/ \E c \in Cpus : xdp_statistics[c]["packets_total"] > 0
                     THEN [verdict |-> XDP_DROP, counted |-> TRUE, allowed |-> 0,
                           port_lookups |-> pl.lookups, cidr_lookups |-> 0, parse |-> p]
                 ELSE [verdict |-> IF cl.ip_allowed # 0 THEN XDP_PASS ELSE XDP_DROP,
                       counted |-> TRUE, allowed |-> cl.ip_allowed,
                       port_lookups |-> pl.lookups, cidr_lookups |-> cl.lookups,
                       parse |-> p]

Run_syslog_skips_cidr(f) ==
    LET p == Parse(f)
    IN  IF p.kind = "return"
            THEN [verdict |-> p.verdict, counted |-> FALSE, allowed |-> 0,
                  port_lookups |-> 0, cidr_lookups |-> 0, parse |-> p]
        ELSE LET pl == PortLoop(0, p.dest_port)
             IN  IF check_port_allowed(p.dest_port) = 0
                     THEN [verdict |-> XDP_DROP, counted |-> TRUE, allowed |-> 0,
                           port_lookups |-> pl.lookups, cidr_lookups |-> 0, parse |-> p]
                 ELSE IF p.is_syslog # 0
                     THEN [verdict |-> XDP_PASS, counted |-> TRUE, allowed |-> 1,
                           port_lookups |-> pl.lookups, cidr_lookups |-> 0, parse |-> p]
                 ELSE LET cl == CidrLoop(0, p.src_ip, p.dest_port)
                      IN  [verdict |-> IF cl.ip_allowed # 0 THEN XDP_PASS ELSE XDP_DROP,
                           counted |-> TRUE, allowed |-> cl.ip_allowed,
                           port_lookups |-> pl.lookups, cidr_lookups |-> cl.lookups,
                           parse |-> p]

Run(f) ==
    LET p == Parse(f)
    IN  IF p.kind = "return"
            THEN [verdict |-> p.verdict, counted |-> FALSE, allowed |-> 0,
                  port_lookups |-> 0, cidr_lookups |-> 0, parse |-> p]
        ELSE LET pl == PortLoop(0, p.dest_port)
             IN  IF check_port_allowed(p.dest_port) = 0
                     THEN [verdict |-> XDP_DROP, counted |-> TRUE, allowed |-> 0,
                           port_lookups |-> pl.lookups, cidr_lookups |-> 0, parse |-> p]
                 ELSE LET cl == CidrLoop(0, p.src_ip, p.dest_port)
                      IN  [verdict |-> IF cl.ip_allowed # 0 THEN XDP_PASS ELSE XDP_DROP,
                           counted |-> TRUE, allowed |-> cl.ip_allowed,
                           port_lookups |-> pl.lookups, cidr_lookups |-> cl.lookups,
                           parse |-> p]

(***************************************************************************)
(* Actions.                                                                *)
(***************************************************************************)
\* packets counted so far, over all CPUs
RECURSIVE SumTotal(_)
SumTotal(cs) ==
    IF cs = {} THEN 0
    ELSE LET c == CHOOSE x \in cs : TRUE
         IN  xdp_statistics[c]["packets_total"] + SumTotal(cs \ {c})

\* One invocation of the XDP program on CPU cpu for frame f.
xdp_filter_func(cpu, f) ==
    LET r == Run(f)
        p == r.parse
    IN  /\ xdp_statistics' =
              IF r.counted
              THEN [xdp_statistics EXCEPT ![cpu] =
                        update_stats(@, p.packet_size, r.allowed, p.is_tcp, p.is_udp,
                                     p.is_syslog, p.is_api)]
              ELSE xdp_statistics
        /\ last' = [kind |-> "run", cpu |-> cpu, frame |-> f, verdict |-> r.verdict,
                    port_lookups |-> r.port_lookups, cidr_lookups |-> r.cidr_lookups]
        /\ UNCHANGED <<cidr_rules, allowed_ports>>

\* Control plane: overwrite one allow-list slot.
upsert_port_rule(index, port) ==
    /\ allowed_ports' = [allowed_ports EXCEPT ![index] = port]
    /\ UNCHANGED <<cidr_rules, xdp_statistics, last, delivered>>

\* Control plane: overwrite one CIDR slot.
upsert_cidr_rule(index, rule) ==
    /\ cidr_rules' = [cidr_rules EXCEPT ![index] = rule]
    /\ UNCHANGED <<allowed_ports, xdp_statistics, last, delivered>>

(***************************************************************************)
(* The driver hands frame f to the hook on CPU cpu.  A frame is a         *)
(* complete IPv4 TCP/UDP frame when the buffer holds the Ethernet header  *)
(* with EtherType IPv4, an IPv4 header of at least five words and the     *)
(* whole TCP or UDP header behind it.                                      *)
(***************************************************************************)
CompleteL4(f) ==
    /\ f.len >= 14 /\ WireValue(f.h_proto) = 2048
    /\ f.len >= 34 /\ f.ihl >= 5
    /\ \/ f.protocol = 6 /\ f.len >= 14 + 4 * f.ihl + 20
       \/ f.protocol = 17 /\ f.len >= 14 + 4 * f.ihl + 8

\* the record of the frames handed to one CPU, after one more complete frame f;
\* allowed and bytes_allowed count the frames that the maps admit as they are
\* when the frame is handed over
Handed(d, f) ==
    LET port == WireValue(f.dest)
        One(b) == IF b THEN 1 ELSE 0
        pass == Run(f).verdict = XDP_PASS
    IN  [n |-> d.n + 1, bytes |-> d.bytes + f.len,
         allowed |-> d.allowed + One(pass),
         bytes_allowed |-> d.bytes_allowed + (IF pass THEN f.len ELSE 0),
         tcp |-> d.tcp + One(f.protocol = 6),
         udp |-> d.udp + One(f.protocol = 17),
         api |-> d.api + One(f.protocol = 6 /\ port \in API_PORTS),
         syslog |-> d.syslog + One(/\ f.protocol = 17
                                   /\ port >= SYSLOG_PORT_MIN
                                   /\ port <= SYSLOG_PORT_MAX)]

NoneHanded ==
    [n |-> 0, bytes |-> 0, allowed |-> 0, bytes_allowed |-> 0,
     tcp |-> 0, udp |-> 0, api |-> 0, syslog |-> 0]

Deliver(cpu, f) ==
    /\ xdp_filter_func(cpu, f)
    /\ delivered' = IF CompleteL4(f)
                    THEN [delivered EXCEPT ![cpu] = Handed(@, f)]
                    ELSE delivered

Packet ==
    /\ SumTotal(Cpus) < MaxPackets
    /\ UNCHANGED <<writes, inv, cp, versions>>
    /\ \E cpu \in Cpus, f \in TrafficFrames : Deliver(cpu, f)

PortWrite ==
    /\ writes < MaxWrites
    /\ writes' = writes + 1
    /\ UNCHANGED <<inv, cp, versions>>
    /\ \E index \in PortSlots, port \in PortValues : upsert_port_rule(index, port)

CidrWrite ==
    /\ writes < MaxWrites
    /\ writes' = writes + 1
    /\ UNCHANGED <<inv, cp, versions>>
    /\ \E index \in CidrSlots, rule \in RuleValues : upsert_cidr_rule(index, rule)

(***************************************************************************)
(* Spec: the maps as loaded (all zero), the control plane writing slots   *)
(* and packets arriving one after another.                                 *)
(***************************************************************************)
Init ==
    /\ cidr_rules = [i \in CidrSlots |-> ZeroRule]
    /\ allowed_ports = [i \in PortSlots |-> 0]
    /\ xdp_statistics = [c \in Cpus |-> ZeroStats]
    /\ last = NoRun
    /\ writes = 0
    /\ delivered = [c \in Cpus |-> NoneHanded]
    /\ inv = [c \in Cpus |-> IdleInv]
    /\ cp = IdleCp
    /\ versions = [i \in CidrSlots |-> {ZeroRule}]

Next == Packet \/ PortWrite \/ CidrWrite

Spec == Init /\ [][Next]_vars

(***************************************************************************)
(* SpecTables: the control plane fills the maps with any content, then    *)
(* one frame arrives.                                                      *)
(***************************************************************************)
ProvisionPort ==
    /\ last = NoRun
    /\ UNCHANGED <<writes, inv, cp, versions>>
    /\ \E index \in PortSlots, port \in PortValues : upsert_port_rule(index, port)

ProvisionCidr ==
    /\ last = NoRun
    /\ UNCHANGED <<writes, inv, cp, versions>>
    /\ \E index \in CidrSlots, rule \in RuleValues : upsert_cidr_rule(index, rule)

FirstPacket ==
    /\ last = NoRun
    /\ UNCHANGED <<writes, inv, cp, versions>>
    /\ \E cpu \in Cpus, f \in Frames : Deliver(cpu, f)

NextTables == ProvisionPort \/ ProvisionCidr \/ FirstPacket

SpecTables == Init /\ [][NextTables]_vars

(***************************************************************************)
(* xdp_filter_func statement by statement.  inv[c] is the invocation on   *)
(* CPU c: pc is the next load or atomic add, i the loop index, masked_ip  *)
(* and network the values check_cidr_match has loaded so far.  Every load *)
(* of a map slot written in the source is a step of its own, so that a    *)
(* control-plane write can fall between any two of them.                   *)
(***************************************************************************)
MaxUpdates == 1

Running(c) == inv[c].pc \notin {"idle", "done"}

\* the statements of the CIDR loop (lines 187-202, with check_cidr_match inlined)
CidrPcs ==
    {"cidr_enabled", "cidr_port", "cidr_port2",
     "match_enabled", "match_mask", "match_network", "match_mask2"}

SetInv(c, r) == inv' = [inv EXCEPT ![c] = r]

\* update_stats that starts at the verdict counters
ToStats_verdict_first(iv, allowed) ==
    [iv EXCEPT !.pc = "stats_verdict", !.allowed = allowed,
               !.masked_ip = ZERO32, !.network = ZERO32]

\* update_stats(packet_size, allowed, ...) is entered
ToStats(iv, allowed) ==
    [iv EXCEPT !.pc = "stats_total", !.allowed = allowed,
               !.masked_ip = ZERO32, !.network = ZERO32]

\* a loop that starts over at slot 0 when it reaches the end of the table
Continue_rescan(iv) ==
    [iv EXCEPT !.pc = "cidr_enabled", !.i = (iv.i + 1) % MAX_CIDR_RULES,
               !.masked_ip = ZERO32, !.network = ZERO32]

\* the continue of the CIDR loop: the next slot, or the end of the loop
Continue(iv) ==
    IF iv.i + 1 < MAX_CIDR_RULES
    THEN [iv EXCEPT !.pc = "cidr_enabled", !.i = iv.i + 1,
                    !.masked_ip = ZERO32, !.network = ZERO32]
    ELSE ToStats(iv, 0)

\* lines 119-177: the frame is parsed; early return, or on to the port check
Enter(c, f) ==
    /\ ~Running(c)
    /\ LET p == Parse(f)
       IN  SetInv(c,
               [pc |-> IF p.kind = "return" THEN "done" ELSE "port_load",
                frame |-> f, p |-> p, i |-> 0,
                masked_ip |-> ZERO32, network |-> ZERO32, allowed |-> 0,
                counted |-> p.kind # "return",
                verdict |-> IF p.kind = "return" THEN p.verdict ELSE "none",
                port_lookups |-> 0, cidr_lookups |-> 0])
    /\ UNCHANGED <<cidr_rules, allowed_ports, xdp_statistics, last, writes, cp, versions>>

\* lines 73-76: the lookup of slot i and the test *allowed_port == 0
PortLoad(c) ==
    /\ inv[c].pc = "port_load"
    /\ LET iv == inv[c]
           allowed_port == bpf_map_lookup_elem(allowed_ports, iv.i)
           looked == [iv EXCEPT !.port_lookups = iv.i + 1]
       IN  IF allowed_port = NULL \/ allowed_port[1] = 0
           THEN SetInv(c, ToStats(looked, 0))
           ELSE SetInv(c, [looked EXCEPT !.pc = "port_cmp"])
    /\ UNCHANGED <<cidr_rules, allowed_ports, xdp_statistics, last, writes, delivered,
                   cp, versions>>

\* lines 78-80: the test *allowed_port == port, and the loop increment
PortCmp(c) ==
    /\ inv[c].pc = "port_cmp"
    /\ LET iv == inv[c]
       IN  IF allowed_ports[iv.i] = iv.p.dest_port
           THEN SetInv(c, [iv EXCEPT !.pc = "cidr_enabled", !.i = 0])
           ELSE IF iv.i + 1 < MAX_PORT_RULES
           THEN SetInv(c, [iv EXCEPT !.pc = "port_load", !.i = iv.i + 1])
           ELSE SetInv(c, ToStats(iv, 0))
    /\ UNCHANGED <<cidr_rules, allowed_ports, xdp_statistics, last, writes, delivered,
                   cp, versions>>

\* lines 188-191: the lookup of slot i and the test !rule->enabled
CidrEnabled(c) ==
    /\ inv[c].pc = "cidr_enabled"
    /\ LET iv == inv[c]
           rule == bpf_map_lookup_elem(cidr_rules, iv.i)
           looked == [iv EXCEPT !.cidr_lookups = iv.i + 1]
       IN  IF rule = NULL \/ rule[1].enabled = 0
           THEN SetInv(c, Continue(looked))
           ELSE SetInv(c, [looked EXCEPT !.pc = "cidr_port"])
    /\ UNCHANGED <<cidr_rules, allowed_ports, xdp_statistics, last, writes, delivered,
                   cp, versions>>

\* line 194, left operand: rule->port != 0
CidrPort(c) ==
    /\ inv[c].pc = "cidr_port"
    /\ LET iv == inv[c]
       IN  IF cidr_rules[iv.i].port # 0
           THEN SetInv(c, [iv EXCEPT !.pc = "cidr_port2"])
           ELSE SetInv(c, [iv EXCEPT !.pc = "match_enabled"])
    /\ UNCHANGED <<cidr_rules, allowed_ports, xdp_statistics, last, writes, delivered,
                   cp, versions>>

\* line 194, right operand: rule->port != dest_port
CidrPort2(c) ==
    /\ inv[c].pc = "cidr_port2"
    /\ LET iv == inv[c]
       IN  IF cidr_rules[iv.i].port # iv.p.dest_port
           THEN SetInv(c, Continue(iv))
           ELSE SetInv(c, [iv EXCEPT !.pc = "match_enabled"])
    /\ UNCHANGED <<cidr_rules, allowed_ports, xdp_statistics, last, writes, delivered,
                   cp, versions>>

\* line 60: check_cidr_match tests !rule->enabled
MatchEnabled(c) ==
    /\ inv[c].pc = "match_enabled"
    /\ LET iv == inv[c]
       IN  IF cidr_rules[iv.i].enabled = 0
           THEN SetInv(c, Continue(iv))
           ELSE SetInv(c, [iv EXCEPT !.pc = "match_mask"])
    /\ UNCHANGED <<cidr_rules, allowed_ports, xdp_statistics, last, writes, delivered,
                   cp, versions>>

\* line 65: masked_ip = ip & rule->mask
MatchMask(c) ==
    /\ inv[c].pc = "match_mask"
    /\ LET iv == inv[c]
       IN  SetInv(c, [iv EXCEPT !.pc = "match_network",
                                !.masked_ip = And32(iv.p.src_ip, cidr_rules[iv.i].mask)])
    /\ UNCHANGED <<cidr_rules, allowed_ports, xdp_statistics, last, writes, delivered,
                   cp, versions>>

\* line 66, left operand: rule->network
MatchNetwork(c) ==
    /\ inv[c].pc = "match_network"
    /\ LET iv == inv[c]
       IN  SetInv(c, [iv EXCEPT !.pc = "match_mask2",
                                !.network = cidr_rules[iv.i].network])
    /\ UNCHANGED <<cidr_rules, allowed_ports, xdp_statistics, last, writes, delivered,
                   cp, versions>>

\* a match taken without the comparison of line 68
MatchMask2_always(c) ==
    /\ inv[c].pc = "match_mask2"
    /\ SetInv(c, ToStats(inv[c], 1))
    /\ UNCHANGED <<cidr_rules, allowed_ports, xdp_statistics, last, writes, delivered,
                   cp, versions>>

\* lines 66-68 and 198-201: & rule->mask, the comparison, ip_allowed = 1 and break
MatchMask2(c) ==
    /\ inv[c].pc = "match_mask2"
    /\ LET iv == inv[c]
           masked_network == And32(iv.network, cidr_rules[iv.i].mask)
       IN  IF iv.masked_ip = masked_network
           THEN SetInv(c, ToStats(iv, 1))
           ELSE SetInv(c, Continue(iv))
    /\ UNCHANGED <<cidr_rules, allowed_ports, xdp_statistics, last, writes, delivered,
                   cp, versions>>

\* a plain store in place of the atomic add
FetchAdd_store(c, counter, n, next) ==
    /\ xdp_statistics' = [xdp_statistics EXCEPT ![c][counter] = n]
    /\ SetInv(c, [inv[c] EXCEPT !.pc = next])
    /\ UNCHANGED <<cidr_rules, allowed_ports, last, writes, delivered, cp, versions>>

\* one __sync_fetch_and_add of update_stats on the block of CPU c
FetchAdd(c, counter, n, next) ==
    /\ xdp_statistics' = [xdp_statistics EXCEPT ![c] = Add(@, counter, n)]
    /\ SetInv(c, [inv[c] EXCEPT !.pc = next])
    /\ UNCHANGED <<cidr_rules, allowed_ports, last, writes, delivered, cp, versions>>

\* the return of xdp_filter_func after update_stats (lines 182, 206-210)
Return(iv) ==
    [iv EXCEPT !.pc = "done",
               !.verdict = IF iv.allowed # 0 THEN XDP_PASS ELSE XDP_DROP]

\* line 93
StatsTotal(c) ==
    /\ inv[c].pc = "stats_total"
    /\ FetchAdd(c, "packets_total", 1, "stats_bytes")

\* line 94
StatsBytes(c) ==
    /\ inv[c].pc = "stats_bytes"
    /\ FetchAdd(c, "bytes_total", inv[c].p.packet_size, "stats_verdict")

\* lines 97 and 100
StatsVerdict(c) ==
    /\ inv[c].pc = "stats_verdict"
    /\ FetchAdd(c, IF inv[c].allowed # 0 THEN "packets_allowed" ELSE "packets_blocked",
                1, "stats_vbytes")

\* lines 98 and 101
StatsVerdictBytes(c) ==
    /\ inv[c].pc = "stats_vbytes"
    /\ FetchAdd(c, IF inv[c].allowed # 0 THEN "bytes_allowed" ELSE "bytes_blocked",
                inv[c].p.packet_size, "stats_proto")

\* update_stats without the else branch of lines 109-113
StatsProto_tcp_only(c) ==
    /\ inv[c].pc = "stats_proto"
    /\ LET iv == inv[c]
       IN  /\ xdp_statistics' =
                 [xdp_statistics EXCEPT ![c] =
                      IF iv.p.is_tcp # 0 THEN Add(@, "tcp_packets", 1) ELSE @]
           /\ SetInv(c, IF iv.p.is_tcp # 0 /\ iv.p.is_api # 0
                        THEN [iv EXCEPT !.pc = "stats_tag"] ELSE Return(iv))
    /\ UNCHANGED <<cidr_rules, allowed_ports, last, writes, delivered, cp, versions>>

\* lines 104-105 and 109-110, and the return when the packet carries no tag
StatsProto(c) ==
    /\ inv[c].pc = "stats_proto"
    /\ LET iv == inv[c]
           tagged == IF iv.p.is_tcp # 0 THEN iv.p.is_api # 0 ELSE iv.p.is_syslog # 0
       IN  /\ xdp_statistics' =
                 [xdp_statistics EXCEPT ![c] =
                      Add(@, IF iv.p.is_tcp # 0 THEN "tcp_packets" ELSE "udp_packets", 1)]
           /\ SetInv(c, IF tagged THEN [iv EXCEPT !.pc = "stats_tag"] ELSE Return(iv))
    /\ UNCHANGED <<cidr_rules, allowed_ports, last, writes, delivered, cp, versions>>

\* lines 107 and 112, and the return
StatsTag(c) ==
    /\ inv[c].pc = "stats_tag"
    /\ xdp_statistics' =
          [xdp_statistics EXCEPT ![c] =
               Add(@, IF inv[c].p.is_tcp # 0 THEN "api_packets" ELSE "syslog_packets", 1)]
    /\ SetInv(c, Return(inv[c]))
    /\ UNCHANGED <<cidr_rules, allowed_ports, last, writes, delivered, cp, versions>>

(***************************************************************************)
(* The control plane changing CIDR slot `slot` to `rule` by the protocol  *)
(* of the specification: clear enabled, overwrite network, mask and port, *)
(* set enabled.  Each store is a step.                                     *)
(***************************************************************************)
Store(slot, field, value, next) ==
    /\ cidr_rules' = [cidr_rules EXCEPT ![slot][field] = value]
    /\ cp' = next
    /\ UNCHANGED <<allowed_ports, xdp_statistics, last, writes, delivered, inv>>

CpDisable(slot, rule) ==
    /\ cp.stage = "idle"
    /\ cp.n < MaxUpdates
    /\ Store(slot, "enabled", 0, [stage |-> "network", n |-> cp.n, slot |-> slot, rule |-> rule])
    /\ versions' = [versions EXCEPT ![slot] = @ \cup {rule}]

CpNetwork ==
    /\ cp.stage = "network"
    /\ Store(cp.slot, "network", cp.rule.network, [cp EXCEPT !.stage = "mask"])
    /\ UNCHANGED versions

CpMask ==
    /\ cp.stage = "mask"
    /\ Store(cp.slot, "mask", cp.rule.mask, [cp EXCEPT !.stage = "port"])
    /\ UNCHANGED versions

CpPort ==
    /\ cp.stage = "port"
    /\ Store(cp.slot, "port", cp.rule.port, [cp EXCEPT !.stage = "enable"])
    /\ UNCHANGED versions

CpEnable ==
    /\ cp.stage = "enable"
    /\ Store(cp.slot, "enabled", cp.rule.enabled, [stage |-> "idle", n |-> cp.n + 1])
    /\ UNCHANGED versions

(***************************************************************************)
(* SpecUpdate: the control plane provisions the maps, one frame arrives,  *)
(* and while xdp_filter_func runs statement by statement the control      *)
(* plane changes CIDR slots by the protocol.                               *)
(***************************************************************************)
NoneStarted == \A c \in Cpus : inv[c].pc = "idle"

UpdProvisionPort ==
    /\ NoneStarted /\ cp = IdleCp
    /\ writes < MaxWrites
    /\ writes' = writes + 1
    /\ UNCHANGED <<inv, cp, versions>>
    /\ \E index \in PortSlots, port \in PortValues : upsert_port_rule(index, port)

UpdProvisionCidr ==
    /\ NoneStarted /\ cp = IdleCp
    /\ writes < MaxWrites
    /\ writes' = writes + 1
    /\ UNCHANGED <<inv, cp>>
    /\ \E index \in CidrSlots, rule \in RuleValues :
          /\ upsert_cidr_rule(index, rule)
          /\ versions' = [versions EXCEPT ![index] = @ \cup {rule}]

Arrive ==
    /\ NoneStarted
    /\ \E c \in Cpus, f \in ScanFrames :
          /\ Enter(c, f)
          /\ delivered' = IF CompleteL4(f)
                          THEN [delivered EXCEPT ![c] = Handed(@, f)]
                          ELSE delivered

Scan ==
    \E c \in Cpus :
        \/ PortLoad(c) \/ PortCmp(c)
        \/ CidrEnabled(c) \/ CidrPort(c) \/ CidrPort2(c)
        \/ MatchEnabled(c) \/ MatchMask(c) \/ MatchNetwork(c) \/ MatchMask2(c)

Count ==
    \E c \in Cpus :
        \/ StatsTotal(c) \/ StatsBytes(c) \/ StatsVerdict(c)
        \/ StatsVerdictBytes(c) \/ StatsProto(c) \/ StatsTag(c)

\* an update to an enabled rule begins while an invocation is in the CIDR loop
SlotUpdate ==
    \/ /\ \E c \in Cpus : inv[c].pc \in CidrPcs
       /\ \E slot \in CidrSlots, rule \in RuleValues :
             rule.enabled # 0 /\ CpDisable(slot, rule)
    \/ CpNetwork \/ CpMask \/ CpPort \/ CpEnable

NextUpdate == UpdProvisionPort \/ UpdProvisionCidr \/ Arrive \/ Scan \/ Count \/ SlotUpdate

SpecUpdate == Init /\ [][NextUpdate]_vars

(***************************************************************************)
(* SpecParallel: the control plane provisions the maps, then frames       *)
(* arrive on the CPUs and the invocations run statement by statement,     *)
(* one at a time on each CPU and in parallel on different CPUs.           *)
(***************************************************************************)
ParallelFrames ==
    { Frame(60, ETH_P_IP, MIN_IHL, IPPROTO_TCP, IP_CLIENT, 443),
      Frame(60, ETH_P_IP, MIN_IHL, IPPROTO_UDP, IP_OTHER, 10500),
      Frame(50, ETH_P_IP, MIN_IHL, IPPROTO_UDP, IP_CLIENT, 443),
      Frame(60, ETH_P_IP, MIN_IHL, 1, IP_CLIENT, 443) }

RECURSIVE HandedTotal(_)
HandedTotal(cs) ==
    IF cs = {} THEN 0
    ELSE LET c == CHOOSE x \in cs : TRUE
         IN  delivered[c].n + HandedTotal(cs \ {c})

ParArrive ==
    \E c \in Cpus, f \in ParallelFrames :
        /\ CompleteL4(f) => HandedTotal(Cpus) < MaxPackets
        /\ Enter(c, f)
        /\ delivered' = IF CompleteL4(f)
                        THEN [delivered EXCEPT ![c] = Handed(@, f)]
                        ELSE delivered

NextParallel == UpdProvisionPort \/ UpdProvisionCidr \/ ParArrive \/ Scan \/ Count

SpecParallel == Init /\ [][NextParallel]_vars

(***************************************************************************)
(* SpecBusy: the control plane provisions the maps, one frame arrives,    *)
(* and while xdp_filter_func runs statement by statement the control      *)
(* plane overwrites single slots of either map, one slot per operation.   *)
(* cp.old is the CIDR table as it was when the frame arrived.  The        *)
(* invocation runs to completion once started (weak fairness of its       *)
(* steps); nothing is assumed of the control plane.                       *)
(***************************************************************************)
MaxBusyWrites == 2

BusyRules ==
    { ZeroRule, CidrRule(ZERO32, ZERO32, 0, 1), CidrRule(NET_LAN, MASK_24, 443, 1) }

BusyPorts == {0, 443}

\* CPU c is in one of the two scans
Scanning(c) == inv[c].pc \in {"port_load", "port_cmp"} \cup CidrPcs

\* the control plane's record after one more overwrite during the scan
Overwritten ==
    [stage |-> "busy", n |-> cp.n + 1,
     old |-> IF cp.stage = "idle" THEN cidr_rules ELSE cp.old]

BusyPortWrite ==
    /\ \E c \in Cpus : Scanning(c)
    /\ cp.stage \in {"idle", "busy"} /\ cp.n < MaxBusyWrites
    /\ cp' = Overwritten
    /\ UNCHANGED <<writes, inv, versions>>
    /\ \E index \in PortSlots, port \in BusyPorts : upsert_port_rule(index, port)

BusyCidrWrite ==
    /\ \E c \in Cpus : Scanning(c)
    /\ cp.stage \in {"idle", "busy"} /\ cp.n < MaxBusyWrites
    /\ cp' = Overwritten
    /\ UNCHANGED <<writes, inv>>
    /\ \E index \in CidrSlots, rule \in BusyRules :
          /\ upsert_cidr_rule(index, rule)
          /\ versions' = [versions EXCEPT ![index] = @ \cup {rule}]

BusyProvisionPort ==
    /\ NoneStarted /\ cp = IdleCp
    /\ writes < MaxWrites
    /\ writes' = writes + 1
    /\ UNCHANGED <<inv, cp, versions>>
    /\ \E index \in PortSlots, port \in BusyPorts : upsert_port_rule(index, port)

BusyProvisionCidr ==
    /\ NoneStarted /\ cp = IdleCp
    /\ writes < MaxWrites
    /\ writes' = writes + 1
    /\ UNCHANGED <<inv, cp>>
    /\ \E index \in CidrSlots, rule \in BusyRules :
          /\ upsert_cidr_rule(index, rule)
          /\ versions' = [versions EXCEPT ![index] = @ \cup {rule}]

NextBusy ==
    BusyProvisionPort \/ BusyProvisionCidr \/ Arrive \/ Scan \/ Count
        \/ BusyPortWrite \/ BusyCidrWrite

SpecBusy == Init /\ [][NextBusy]_vars /\ WF_vars(Scan \/ Count)

(***************************************************************************)
(* Vocabulary of the properties.                                           *)
(***************************************************************************)
Ran == last.kind = "run"

\* the destination port a frame carries on the wire
DestPort(f) == WireValue(f.dest)

\* p equals an allow-list entry located before the first 0 entry
PortListed(p) ==
    \E i \in PortSlots :
        /\ allowed_ports[i] = p
        /\ \A j \in 0 .. i : allowed_ports[j] # 0

\* slot i agrees with (ip, port) on network, mask and port
FieldMatch(i, ip, port) ==
    /\ cidr_rules[i].port = 0 \/ cidr_rules[i].port = port
    /\ And32(ip, cidr_rules[i].mask) = And32(cidr_rules[i].network, cidr_rules[i].mask)

\* slot i matches (ip, port): it is enabled and agrees on network, mask and port
SlotMatches(i, ip, port) == cidr_rules[i].enabled # 0 /\ FieldMatch(i, ip, port)

\* the last invocation was for a complete IPv4 TCP/UDP frame
RanL4 == Ran /\ CompleteL4(last.frame)

\* this step is an invocation of xdp_filter_func on CPU cpu for frame f
Invocation(cpu, f) ==
    /\ last'.kind = "run" /\ last'.cpu = cpu /\ last'.frame = f
    /\ xdp_filter_func(cpu, f)

(***************************************************************************)
(* C1.  For every complete IPv4 TCP/UDP frame and every content of the    *)
(* two maps the verdict is XDP_PASS iff the destination port is listed    *)
(* before the first 0 of the allow-list and some CIDR slot is enabled,    *)
(* has port 0 or the destination port, and agrees on the masked address;  *)
(* otherwise it is XDP_DROP.                                               *)
(***************************************************************************)
C1_PassIffBothGates ==
    RanL4 =>
        LET ip == last.frame.saddr
            port == DestPort(last.frame)
            admit == /\ PortListed(port)
                     /\ \E i \in CidrSlots : SlotMatches(i, ip, port)
        IN  /\ admit => last.verdict = XDP_PASS
            /\ ~admit => last.verdict = XDP_DROP

\* a frame admitted by a port-specific /24 rule whose network has host bits set
C1_Witness ==
    /\ RanL4
    /\ last.verdict = XDP_PASS
    /\ \A i \in CidrSlots :
          SlotMatches(i, last.frame.saddr, DestPort(last.frame)) =>
              /\ cidr_rules[i].mask = MASK_24
              /\ cidr_rules[i].network # And32(cidr_rules[i].network, MASK_24)
              /\ cidr_rules[i].port = 443

(***************************************************************************)
(* C3 (as claimed).  When slots i < j both agree with the packet on       *)
(* network, mask and port but differ in enabled, the verdict is the one   *)
(* slot i alone gives and slot j is not looked up.                         *)
(***************************************************************************)
C3_LowerSlotAloneDecides ==
    (RanL4 /\ PortListed(DestPort(last.frame))) =>
        \A i \in CidrSlots, j \in CidrSlots :
            LET ip == last.frame.saddr
                port == DestPort(last.frame)
            IN  ( /\ i < j
                  /\ FieldMatch(i, ip, port) /\ FieldMatch(j, ip, port)
                  /\ cidr_rules[i].enabled # cidr_rules[j].enabled
                  /\ \A k \in 0 .. (i - 1) : ~SlotMatches(k, ip, port) )
                =>  /\ last.verdict = XDP_PASS <=> SlotMatches(i, ip, port)
                    /\ last.cidr_lookups <= i + 1

(***************************************************************************)
(* C3 (amended).  The lowest slot that is enabled and agrees with the     *)
(* packet on network, mask and port decides: the scan stops there with    *)
(* XDP_PASS and no later slot is looked up.  A slot whose enabled flag is *)
(* clear is skipped even when its other fields agree, so a later enabled  *)
(* slot still admits the packet.                                           *)
(***************************************************************************)
C3_FirstEnabledMatchWins ==
    (RanL4 /\ PortListed(DestPort(last.frame))) =>
        \A i \in CidrSlots :
            LET ip == last.frame.saddr
                port == DestPort(last.frame)
            IN  ( /\ SlotMatches(i, ip, port)
                  /\ \A k \in 0 .. (i - 1) : ~SlotMatches(k, ip, port) )
                =>  /\ last.verdict = XDP_PASS
                    /\ last.cidr_lookups = i + 1

\* two enabled slots match, the scan stopped at the first
C3_Witness ==
    /\ RanL4
    /\ PortListed(DestPort(last.frame))
    /\ \A i \in CidrSlots : SlotMatches(i, last.frame.saddr, DestPort(last.frame))
    /\ cidr_rules[0] # cidr_rules[1]
    /\ last.verdict = XDP_PASS
    /\ last.cidr_lookups = 1

(***************************************************************************)
(* C4.  With 0 in allow-list slot k, check_port_allowed(p) is true only   *)
(* if p is an entry at an index below k; a packet whose destination port  *)
(* occurs only above k is dropped.                                         *)
(***************************************************************************)
C4_SentinelTruncation ==
    \A k \in PortSlots :
        allowed_ports[k] = 0 =>
            /\ \A p \in DestPorts \cup PortValues :
                   check_port_allowed(p) # 0 =>
                       \E i \in 0 .. (k - 1) : allowed_ports[i] = p
            /\ ( /\ RanL4
                 /\ \A i \in 0 .. (k - 1) : allowed_ports[i] # DestPort(last.frame) )
               => last.verdict = XDP_DROP

\* the port of the dropped packet sits behind the sentinel, its source is admitted
C4_Witness ==
    /\ RanL4
    /\ \E k \in PortSlots, i \in PortSlots :
          /\ k > 0 /\ allowed_ports[k] = 0
          /\ i > k /\ allowed_ports[i] = DestPort(last.frame)
          /\ \A j \in 0 .. (k - 1) : allowed_ports[j] \notin {0, DestPort(last.frame)}
    /\ \E i \in CidrSlots : SlotMatches(i, last.frame.saddr, DestPort(last.frame))
    /\ last.verdict = XDP_DROP

(***************************************************************************)
(* C2.  Default-deny: a complete IPv4 TCP/UDP packet whose destination    *)
(* port is not listed is dropped, packets_blocked of the executing CPU    *)
(* grows by exactly 1 and packets_allowed stays, whatever the CIDR map    *)
(* holds.                                                                  *)
(***************************************************************************)
C2_DefaultDeny ==
    [][ \A cpu \in Cpus, f \in Frames :
            ( /\ Invocation(cpu, f)
              /\ CompleteL4(f)
              /\ ~PortListed(DestPort(f)) )
            =>  /\ last'.verdict = XDP_DROP
                /\ xdp_statistics'[cpu]["packets_blocked"]
                       = xdp_statistics[cpu]["packets_blocked"] + 1
                /\ xdp_statistics'[cpu]["packets_allowed"]
                       = xdp_statistics[cpu]["packets_allowed"] ]_vars

\* a second blocked packet on a CPU although an enabled CIDR slot matches it
C2_Witness ==
    /\ RanL4
    /\ ~PortListed(DestPort(last.frame))
    /\ \E i \in CidrSlots : SlotMatches(i, last.frame.saddr, DestPort(last.frame))
    /\ last.verdict = XDP_DROP
    /\ xdp_statistics[last.cpu]["packets_blocked"] = 2

(***************************************************************************)
(* C5.  Statistics conservation: on every CPU, after the N complete IPv4  *)
(* TCP/UDP packets delivered so far, packets_allowed + packets_blocked =  *)
(* packets_total = N, and bytes_allowed + bytes_blocked = bytes_total =   *)
(* the sum of their frame lengths.                                         *)
(***************************************************************************)
C5_StatsConservation ==
    \A c \in Cpus :
        LET st == xdp_statistics[c]
        IN  /\ st["packets_allowed"] + st["packets_blocked"] = st["packets_total"]
            /\ st["packets_total"] = delivered[c].n
            /\ st["bytes_allowed"] + st["bytes_blocked"] = st["bytes_total"]
            /\ st["bytes_total"] = delivered[c].bytes

\* one CPU has seen an admitted and a blocked packet of different lengths
C5_Witness ==
    \E c \in Cpus :
        /\ delivered[c].n = 2
        /\ xdp_statistics[c]["packets_allowed"] = 1
        /\ xdp_statistics[c]["packets_blocked"] = 1
        /\ xdp_statistics[c]["bytes_allowed"] # xdp_statistics[c]["bytes_blocked"]

(***************************************************************************)
(* C6 (as claimed).  Every frame that is not IPv4, or whose IP protocol   *)
(* is neither TCP nor UDP, gets XDP_PASS and changes no counter.          *)
(***************************************************************************)
NotIPv4(f) == f.len < 14 \/ WireValue(f.h_proto) # 2048
NotTcpUdp(f) == f.len >= 34 /\ WireValue(f.h_proto) = 2048 /\ f.protocol \notin {6, 17}

C6_PassThroughAnyHeader ==
    [][ \A cpu \in Cpus, f \in Frames :
            ( Invocation(cpu, f) /\ (NotIPv4(f) \/ NotTcpUdp(f)) )
            =>  /\ last'.verdict = XDP_PASS
                /\ xdp_statistics' = xdp_statistics ]_vars

(***************************************************************************)
(* C6 (amended).  Every frame that is not IPv4, or that is IPv4 with a    *)
(* header length of at least 5 words and an IP protocol that is neither   *)
(* TCP nor UDP, gets XDP_PASS and changes no counter of any CPU.          *)
(***************************************************************************)
C6_PassThroughExclusion ==
    [][ \A cpu \in Cpus, f \in Frames :
            ( Invocation(cpu, f) /\ (NotIPv4(f) \/ (NotTcpUdp(f) /\ f.ihl >= 5)) )
            =>  /\ last'.verdict = XDP_PASS
                /\ xdp_statistics' = xdp_statistics ]_vars

\* an ICMP frame passed after a packet had been counted
C6_Witness ==
    /\ Ran
    /\ NotTcpUdp(last.frame) /\ last.frame.ihl >= 5
    /\ last.verdict = XDP_PASS
    /\ \E c \in Cpus : xdp_statistics[c]["packets_total"] > 0

(***************************************************************************)
(* C7.  An IPv4 frame (Ethernet and IPv4 header in the buffer) that       *)
(* declares ihl < 5, or is TCP/UDP with the transport header not fitting  *)
(* at the declared offset, gets XDP_DROP and changes no counter.          *)
(***************************************************************************)
Malformed(f) ==
    /\ f.len >= 34 /\ WireValue(f.h_proto) = 2048
    /\ \/ f.ihl < 5
       \/ f.protocol = 6 /\ 14 + 4 * f.ihl + 20 > f.len
       \/ f.protocol = 17 /\ 14 + 4 * f.ihl + 8 > f.len

C7_MalformedDropUncounted ==
    [][ \A cpu \in Cpus, f \in Frames :
            ( Invocation(cpu, f) /\ Malformed(f) )
            =>  /\ last'.verdict = XDP_DROP
                /\ xdp_statistics' = xdp_statistics ]_vars

\* a frame with a cut transport header dropped after a packet had been counted
C7_Witness ==
    /\ Ran
    /\ Malformed(last.frame) /\ last.frame.ihl >= 5
    /\ last.verdict = XDP_DROP
    /\ \E c \in Cpus : xdp_statistics[c]["packets_total"] > 0

(***************************************************************************)
(* C8.  Enabled-flag publish barrier: when the control plane changes a    *)
(* CIDR slot only by clearing enabled, overwriting network, mask and      *)
(* port, and setting enabled, every PASS that a concurrently running      *)
(* invocation produces through that slot is justified by one rule the     *)
(* slot has held as a whole (the old one or the new one): that rule is    *)
(* enabled, its port is 0 or the destination port, and the source         *)
(* address lies in its network under its mask.  The loads of lines 189,   *)
(* 194, 60, 65 and 66 are not revalidated against enabled, so the code    *)
(* admits on a mixture: this statement is violated under SpecUpdate.      *)
(***************************************************************************)
Justifies(r, ip, port) ==
    /\ r.enabled # 0
    /\ r.port = 0 \/ r.port = port
    /\ And32(ip, r.mask) = And32(r.network, r.mask)

C8_NoHalfWrittenAdmit ==
    \A c \in Cpus :
        ( inv[c].pc = "done" /\ inv[c].counted /\ inv[c].verdict = XDP_PASS )
        => \E r \in versions[inv[c].i] :
               Justifies(r, inv[c].p.src_ip, inv[c].p.dest_port)

(***************************************************************************)
(* C9.  Classification counters: every invocation for a complete IPv4     *)
(* TCP/UDP frame, admitted or blocked, adds 1 to tcp_packets or to        *)
(* udp_packets according to the transport and 0 to the other; it adds 1   *)
(* to api_packets iff the frame is TCP to a port in {80, 443, 8081, 8082} *)
(* and 1 to syslog_packets iff it is UDP to a port in [10000, 11000].     *)
(***************************************************************************)
Grows(cpu, c, n) == xdp_statistics'[cpu][c] = xdp_statistics[cpu][c] + n

C9_ClassificationCounters ==
    [][ \A cpu \in Cpus, f \in Frames :
            ( Invocation(cpu, f) /\ CompleteL4(f) )
            =>  LET tcp == f.protocol = 6
                    api == tcp /\ DestPort(f) \in API_PORTS
                    syslog == ~tcp /\ DestPort(f) \in SYSLOG_PORT_MIN .. SYSLOG_PORT_MAX
                IN  /\ Grows(cpu, "tcp_packets", IF tcp THEN 1 ELSE 0)
                    /\ Grows(cpu, "udp_packets", IF tcp THEN 0 ELSE 1)
                    /\ Grows(cpu, "api_packets", IF api THEN 1 ELSE 0)
                    /\ Grows(cpu, "syslog_packets", IF syslog THEN 1 ELSE 0) ]_vars

\* a blocked UDP packet to the last syslog port has its tag recorded
C9_Witness ==
    /\ RanL4
    /\ last.frame.protocol = 17
    /\ DestPort(last.frame) = SYSLOG_PORT_MAX
    /\ last.verdict = XDP_DROP
    /\ xdp_statistics[last.cpu]["packets_blocked"] = 1
    /\ xdp_statistics[last.cpu]["udp_packets"] = 1
    /\ xdp_statistics[last.cpu]["syslog_packets"] = 1

(***************************************************************************)
(* C10.  Tags and transport do not influence the verdict: with the maps   *)
(* as they are, every complete IPv4 TCP/UDP frame with the source address *)
(* and destination port of the frame just processed gets the verdict that *)
(* frame got, whatever its transport, tags and length.                    *)
(***************************************************************************)
C10_TagNonInterference ==
    RanL4 =>
        \A g \in Frames :
            ( /\ CompleteL4(g)
              /\ g.saddr = last.frame.saddr
              /\ DestPort(g) = DestPort(last.frame) )
            => Run(g).verdict = last.verdict

\* an admitted syslog-tagged UDP frame and an untagged, longer TCP frame to the same port
C10_Witness ==
    /\ RanL4
    /\ last.verdict = XDP_PASS
    /\ last.frame.protocol = 17 /\ DestPort(last.frame) = 10500
    /\ \E g \in Frames :
          /\ CompleteL4(g) /\ g.protocol = 6 /\ g.len # last.frame.len
          /\ g.saddr = last.frame.saddr /\ DestPort(g) = DestPort(last.frame)
          /\ Run(g).verdict = XDP_PASS

(***************************************************************************)
(* C11.  No lost updates across contexts: with invocations for different  *)
(* packets running in parallel on several CPUs, every step changes the    *)
(* counter block of at most one CPU, that of the invocation taking the    *)
(* step, and only by adding to its counters; and once every invocation    *)
(* has returned, the sum over the CPUs of each of the ten counters equals *)
(* the number (for the byte counters, the bytes) of the complete IPv4     *)
(* TCP/UDP frames of that class that were handed to the hook.             *)
(***************************************************************************)
\* the sum of the values of the function fn over the CPUs cs
RECURSIVE SumOver(_, _)
SumOver(cs, fn) ==
    IF cs = {} THEN 0
    ELSE LET c == CHOOSE x \in cs : TRUE
         IN  fn[c] + SumOver(cs \ {c}, fn)

\* the counter block that the frames handed to CPU c account for
Expected(c) ==
    LET d == delivered[c]
    IN  [packets_total |-> d.n, packets_allowed |-> d.allowed,
         packets_blocked |-> d.n - d.allowed,
         bytes_total |-> d.bytes, bytes_allowed |-> d.bytes_allowed,
         bytes_blocked |-> d.bytes - d.bytes_allowed,
         tcp_packets |-> d.tcp, udp_packets |-> d.udp,
         syslog_packets |-> d.syslog, api_packets |-> d.api]

C11_SumsAgree ==
    (\A c \in Cpus : ~Running(c)) =>
        \A k \in Counters :
            SumOver(Cpus, [c \in Cpus |-> xdp_statistics[c][k]])
                = SumOver(Cpus, [c \in Cpus |-> Expected(c)[k]])

C11_OwnBlockOnly ==
    \A c \in Cpus :
        xdp_statistics'[c] # xdp_statistics[c] =>
            /\ Running(c) /\ inv'[c] # inv[c]
            /\ \A o \in Cpus \ {c} : xdp_statistics'[o] = xdp_statistics[o]
            /\ \A k \in Counters : xdp_statistics'[c][k] >= xdp_statistics[c][k]

C11_NoLostUpdates == []C11_SumsAgree /\ [][C11_OwnBlockOnly]_vars

\* both CPUs have processed a packet, one admitted and one blocked, and all have returned
C11_Witness ==
    /\ \A c \in Cpus : inv[c].pc = "done" /\ delivered[c].n >= 1
    /\ \E c \in Cpus : xdp_statistics[c]["packets_allowed"] >= 1
    /\ \E c \in Cpus : xdp_statistics[c]["packets_blocked"] >= 1

(***************************************************************************)
(* C12.  Bounded termination: whatever the frame and the maps, and with   *)
(* the control plane overwriting slots of both maps during the scan, an   *)
(* invocation performs at most MAX_PORT_RULES allow-list lookups and at   *)
(* most MAX_CIDR_RULES CIDR lookups; each lookup is of the slot whose     *)
(* index is the number of lookups made before it, so no slot is looked up *)
(* twice; and every started invocation returns XDP_PASS or XDP_DROP       *)
(* under fairness of its own steps alone, so it waits for no other        *)
(* process.                                                                *)
(***************************************************************************)
C12_LookupsBounded ==
    \A c \in Cpus :
        inv[c].pc # "idle" =>
            /\ inv[c].port_lookups <= MAX_PORT_RULES
            /\ inv[c].cidr_lookups <= MAX_CIDR_RULES
            /\ inv[c].pc = "done" => inv[c].verdict \in {XDP_PASS, XDP_DROP}

C12_FreshSlots ==
    \A c \in Cpus :
        Running(c) =>
            /\ inv'[c].port_lookups # inv[c].port_lookups =>
                   /\ inv'[c].port_lookups = inv[c].port_lookups + 1
                   /\ inv[c].i = inv[c].port_lookups
            /\ inv'[c].cidr_lookups # inv[c].cidr_lookups =>
                   /\ inv'[c].cidr_lookups = inv[c].cidr_lookups + 1
                   /\ inv[c].i = inv[c].cidr_lookups

C12_Terminates == \A c \in Cpus : Running(c) ~> inv[c].pc = "done"

C12_BoundedTermination ==
    []C12_LookupsBounded /\ [][C12_FreshSlots]_vars /\ C12_Terminates

\* a scan of the whole CIDR table during which the control plane overwrote slots
C12_Witness ==
    \E c \in Cpus :
        /\ inv[c].pc = "done" /\ inv[c].counted
        /\ cp.stage = "busy" /\ cp.n = MaxBusyWrites
        /\ inv[c].port_lookups >= 2
        /\ inv[c].cidr_lookups = MAX_CIDR_RULES

(***************************************************************************)
(* C13.  Mixed-table visibility: a change of two CIDR slots is two        *)
(* single-slot overwrites, and a scan that runs across them can return a  *)
(* verdict that neither the table before the change nor the table after   *)
(* it gives for the packet (C13_Witness: the allowing rule moves from     *)
(* slot 1 to slot 0 behind the scan, which drops a packet both tables     *)
(* admit).  The overwrites are what it takes: a scan during which the     *)
(* control plane overwrites nothing returns the verdict of the table.     *)
(***************************************************************************)
TableVerdict(table, ip, port) ==
    IF /\ PortListed(port)
       /\ \E i \in CidrSlots : Justifies(table[i], ip, port)
    THEN XDP_PASS ELSE XDP_DROP

C13_QuietScanSeesTable ==
    \A c \in Cpus :
        ( inv[c].pc = "done" /\ inv[c].counted /\ cp = IdleCp )
        => inv[c].verdict = TableVerdict(cidr_rules, inv[c].p.src_ip, inv[c].p.dest_port)

C13_Witness ==
    \E c \in Cpus :
        /\ inv[c].pc = "done" /\ inv[c].counted
        /\ cp.stage = "busy" /\ cp.n = 2
        /\ \A i \in CidrSlots : cp.old[i] # cidr_rules[i]
        /\ cp.old[1] = cidr_rules[0] /\ cidr_rules[1] = ZeroRule
        /\ TableVerdict(cp.old, inv[c].p.src_ip, inv[c].p.dest_port) = XDP_PASS
        /\ TableVerdict(cidr_rules, inv[c].p.src_ip, inv[c].p.dest_port) = XDP_PASS
        /\ inv[c].verdict = XDP_DROP

(***************************************************************************)
(* C14.  Counter monotonicity: in every step, whichever invocation on     *)
(* whichever CPU takes it and whatever the other CPUs are in the middle   *)
(* of, each of the ten counters of each CPU is at least its previous      *)
(* value (the counters being below 2^64).                                 *)
(***************************************************************************)
C14_CountersMonotone ==
    [][ \A c \in Cpus, k \in Counters :
            xdp_statistics'[c][k] >= xdp_statistics[c][k] ]_vars

\* one CPU has counted a packet while the other is in the middle of update_stats
C14_Witness ==
    \E c \in Cpus, o \in Cpus :
        /\ c # o
        /\ inv[c].pc = "done" /\ xdp_statistics[c]["packets_total"] = 1
        /\ inv[o].pc = "stats_verdict" /\ xdp_statistics[o]["bytes_total"] > 0

(***************************************************************************)
(* C15.  Read-only rule tables and statelessness: an invocation of        *)
(* xdp_filter_func leaves every slot of allowed_ports and of cidr_rules   *)
(* as it was, and it leaves the verdict of every complete IPv4 TCP/UDP    *)
(* frame as it was: the verdict the filter gives a frame after the        *)
(* invocation, with the counters the invocation has changed, is the       *)
(* verdict it gave the frame before.  So between two control-plane       *)
(* writes the verdict of a frame does not depend on the packets           *)
(* processed before it.                                                    *)
(***************************************************************************)
C15_ReadOnlyStateless ==
    [][ ( last'.kind = "run" /\ Invocation(last'.cpu, last'.frame) ) =>
            /\ cidr_rules' = cidr_rules
            /\ allowed_ports' = allowed_ports
            /\ \A g \in TrafficFrames :
                   CompleteL4(g) => (Run(g).verdict)' = Run(g).verdict ]_vars

\* a frame is admitted by a CPU that has counted an earlier packet
C15_Witness ==
    /\ RanL4
    /\ last.verdict = XDP_PASS
    /\ xdp_statistics[last.cpu]["packets_total"] = 2
    /\ xdp_statistics[last.cpu]["packets_allowed"] = 2

(***************************************************************************)
(* C16.  Check precedence in the parser: the first check that applies     *)
(* fixes the verdict, in this order: frame shorter than the Ethernet      *)
(* header, PASS; EtherType not IPv4, PASS; frame shorter than Ethernet    *)
(* plus minimal IPv4 header, PASS; ihl < 5, DROP; protocol TCP or UDP     *)
(* with the transport header not fitting in the buffer, DROP; protocol    *)
(* neither TCP nor UDP, PASS.  None of these invocations changes a        *)
(* counter; every other frame goes on to the filter and is counted.       *)
(***************************************************************************)
NoCheckApplies == "filter"

\* the verdict of the first parser check that applies to frame f
FirstCheck(f) ==
    IF f.len < ETH_HLEN THEN XDP_PASS
    ELSE IF WireValue(f.h_proto) # ETH_P_IP THEN XDP_PASS
    ELSE IF f.len < ETH_HLEN + IPHDR_LEN THEN XDP_PASS
    ELSE IF f.ihl < MIN_IHL THEN XDP_DROP
    ELSE IF f.protocol = IPPROTO_TCP /\ f.len < ETH_HLEN + 4 * f.ihl + TCPHDR_LEN
        THEN XDP_DROP
    ELSE IF f.protocol = IPPROTO_UDP /\ f.len < ETH_HLEN + 4 * f.ihl + UDPHDR_LEN
        THEN XDP_DROP
    ELSE IF f.protocol # IPPROTO_TCP /\ f.protocol # IPPROTO_UDP THEN XDP_PASS
    ELSE NoCheckApplies

C16_CheckPrecedence ==
    Ran =>
        IF FirstCheck(last.frame) = NoCheckApplies
        THEN xdp_statistics[last.cpu]["packets_total"] = 1
        ELSE /\ last.verdict = FirstCheck(last.frame)
             /\ \A c \in Cpus : xdp_statistics[c] = ZeroStats

\* an IPv4 frame that is neither TCP nor UDP and has ihl < 5 is dropped
C16_Witness ==
    /\ Ran
    /\ WireValue(last.frame.h_proto) = ETH_P_IP /\ last.frame.len >= ETH_HLEN + IPHDR_LEN
    /\ last.frame.ihl < MIN_IHL
    /\ last.frame.protocol # IPPROTO_TCP /\ last.frame.protocol # IPPROTO_UDP
    /\ last.verdict = XDP_DROP

(***************************************************************************)
(* C17.  Destination port 0 is never admitted: whatever the allow-list    *)
(* and the CIDR table hold, rules with the wildcard port 0 included, a    *)
(* complete IPv4 TCP/UDP frame with destination port 0 is dropped and     *)
(* counted as blocked, and no CIDR slot is looked up for it.              *)
(***************************************************************************)
C17_PortZeroDropped ==
    ( RanL4 /\ DestPort(last.frame) = 0 ) =>
        /\ last.verdict = XDP_DROP
        /\ last.cidr_lookups = 0
        /\ xdp_statistics[last.cpu]["packets_blocked"] = 1
        /\ xdp_statistics[last.cpu]["packets_allowed"] = 0

\* port 0 is dropped although an enabled wildcard-port rule matches the source
\* and the allow-list has entries
C17_Witness ==
    /\ RanL4 /\ DestPort(last.frame) = 0
    /\ allowed_ports[0] # 0 /\ allowed_ports[1] = 0
    /\ \E i \in CidrSlots :
          /\ cidr_rules[i].port = 0
          /\ SlotMatches(i, last.frame.saddr, 0)
    /\ last.verdict = XDP_DROP

(***************************************************************************)
(* C18.  Snapshot bound during an update: update_stats adds to the        *)
(* counters one after another, and in every reachable state, those in the *)
(* middle of update_stats included, each CPU has packets_allowed +        *)
(* packets_blocked <= packets_total and bytes_allowed + bytes_blocked <=  *)
(* bytes_total; the packet gap is at most the number of invocations that  *)
(* are inside update_stats on that CPU, and both gaps are 0 when none is. *)
(***************************************************************************)
StatsPcs ==
    {"stats_total", "stats_bytes", "stats_verdict", "stats_vbytes", "stats_proto", "stats_tag"}

\* the number of invocations inside update_stats on CPU c
InsideStats(c) == IF inv[c].pc \in StatsPcs THEN 1 ELSE 0

PacketGap(c) ==
    xdp_statistics[c]["packets_total"]
        - (xdp_statistics[c]["packets_allowed"] + xdp_statistics[c]["packets_blocked"])

ByteGap(c) ==
    xdp_statistics[c]["bytes_total"]
        - (xdp_statistics[c]["bytes_allowed"] + xdp_statistics[c]["bytes_blocked"])

C18_SnapshotBound ==
    \A c \in Cpus :
        /\ PacketGap(c) >= 0 /\ ByteGap(c) >= 0
        /\ PacketGap(c) <= InsideStats(c)
        /\ InsideStats(c) = 0 => PacketGap(c) = 0 /\ ByteGap(c) = 0

\* a CPU between the add to bytes_total and the add to packets_allowed or
\* packets_blocked, while the other CPU has finished a packet
C18_Witness ==
    \E c \in Cpus, o \in Cpus :
        /\ c # o
        /\ inv[c].pc = "stats_verdict"
        /\ PacketGap(c) = 1 /\ ByteGap(c) > 0
        /\ inv[o].pc = "done" /\ xdp_statistics[o]["packets_total"] = 1

(***************************************************************************)
(* C19.  Transport partition of the counters: on every CPU on which no    *)
(* update_stats is in progress, tcp_packets + udp_packets =               *)
(* packets_total, api_packets <= tcp_packets and syslog_packets <=        *)
(* udp_packets, after any sequence of packets.                            *)
(***************************************************************************)
C19_TransportPartition ==
    \A c \in Cpus :
        InsideStats(c) = 0 =>
            /\ xdp_statistics[c]["tcp_packets"] + xdp_statistics[c]["udp_packets"]
                   = xdp_statistics[c]["packets_total"]
            /\ xdp_statistics[c]["api_packets"] <= xdp_statistics[c]["tcp_packets"]
            /\ xdp_statistics[c]["syslog_packets"] <= xdp_statistics[c]["udp_packets"]

\* a CPU has counted a tagged TCP packet and an untagged UDP packet
C19_Witness ==
    \E c \in Cpus :
        /\ inv[c].pc = "done"
        /\ xdp_statistics[c]["tcp_packets"] = 1 /\ xdp_statistics[c]["api_packets"] = 1
        /\ xdp_statistics[c]["udp_packets"] = 1 /\ xdp_statistics[c]["syslog_packets"] = 0

(***************************************************************************)
(* C20.  Fail-closed initial state: with both maps as loaded, all zero,   *)
(* every complete IPv4 TCP/UDP frame is dropped and counted as blocked;   *)
(* and whatever the allow-list holds, as long as no CIDR slot has enabled *)
(* set, whatever its other fields, every such frame is dropped and        *)
(* counted as blocked.                                                     *)
(***************************************************************************)
MapsAsLoaded ==
    /\ \A i \in PortSlots : allowed_ports[i] = 0
    /\ \A i \in CidrSlots : cidr_rules[i] = ZeroRule

NoSlotEnabled == \A i \in CidrSlots : cidr_rules[i].enabled = 0

C20_FailClosed ==
    ( RanL4 /\ (MapsAsLoaded \/ NoSlotEnabled) ) =>
        /\ last.verdict = XDP_DROP
        /\ xdp_statistics[last.cpu]["packets_blocked"] = 1
        /\ xdp_statistics[last.cpu]["packets_allowed"] = 0

\* the port is listed and a disabled slot agrees with the packet on network, mask
\* and port: the packet is dropped after a scan of the whole CIDR table
C20_Witness ==
    /\ RanL4 /\ NoSlotEnabled
    /\ PortListed(DestPort(last.frame))
    /\ \E i \in CidrSlots :
          /\ cidr_rules[i] # ZeroRule
          /\ FieldMatch(i, last.frame.saddr, DestPort(last.frame))
    /\ last.cidr_lookups = MAX_CIDR_RULES
    /\ last.verdict = XDP_DROP

====
